---- MODULE Spec2Model ----
(***************************************************************************)
(* SmartBackup (src/smartbackup.py): the change index, the change          *)
(* detector, the snapshot builder, the archiver and the retention manager  *)
(* of class SmartBackup, as a state machine.                               *)
(*                                                                         *)
(* Strings are sequences of one-character strings, so that the substring   *)
(* test of should_exclude, the prefix test of cleanup_old_backups and the  *)
(* suffix replacement of compress_backup are computed as Python computes   *)
(* them.  A path is the sequence of its components below "/".              *)
(* Time is counted in whole seconds, the resolution of a snapshot's name.  *)
(* The destination directory lies outside every source directory.         *)
(***************************************************************************)
EXTENDS Integers, Sequences, FiniteSets, TLC

\* ------------------------------------------------------------------ bounds
MaxClock == 1       \* last second of the clock
MaxRuns == 3        \* create_backup calls in one behaviour
MaxEvents == 1      \* changes by the environment, I/O failures and kills
                    \* in one behaviour
MaxCap == 1         \* largest max_backups a configuration is given

\* ----------------------------------------------------------------- strings
None == -1          \* Python's None, as dict.get returns it
EmptyHash == 0      \* the "" calculate_file_hash returns on failure

Digit == <<"0", "1", "2", "3", "4", "5", "6", "7", "8", "9">>

\* Python: p in s
Contains(s, p) ==
    \E i \in 0..(Len(s) - Len(p)) : SubSeq(s, i + 1, i + Len(p)) = p

\* Python: s.startswith(p)
StartsWith(s, p) ==
    /\ Len(p) <= Len(s)
    /\ SubSeq(s, 1, Len(p)) = p

\* str(path) of an absolute path: "/" before every component
RECURSIVE PathStr(_)
PathStr(path) ==
    IF path = <<>> THEN <<>>
    ELSE PathStr(SubSeq(path, 1, Len(path) - 1)) \o <<"/", path[Len(path)]>>

\* Path.name: the last component
PathName(path) == path[Len(path)]

\* Path.relative_to(base)
RelativeTo(path, base) == SubSeq(path, Len(base) + 1, Len(path))

\* the position of the last "." of s, 0 when there is none (str.rfind + 1)
RECURSIVE RFindDot(_)
RFindDot(s) ==
    IF s = <<>> THEN 0
    ELSE IF s[Len(s)] = "." THEN Len(s)
    ELSE RFindDot(SubSeq(s, 1, Len(s) - 1))

\* PurePath.suffix of a file name: from the last dot on, unless that dot is
\* the first or the last character
Suffix(name) ==
    LET i == RFindDot(name)
    IN IF 1 < i /\ i < Len(name) THEN SubSeq(name, i, Len(name)) ELSE <<>>

\* PurePath.with_suffix(suffix) on a file name
WithSuffix(name, suffix) ==
    SubSeq(name, 1, Len(name) - Len(Suffix(name))) \o suffix

TarGz == <<".", "t", "a", "r", ".", "g", "z">>

\* datetime.now().strftime('%Y%m%d_%H%M%S'): the second of the clock in a
\* fixed number of digits (the date, hour and minute fields are constant here)
Strftime(sec) == <<Digit[((sec \div 10) % 10) + 1], Digit[(sec % 10) + 1]>>

\* ------------------------------------------------------- the source trees
\* directories that exist, each with its sub-directories and its files in
\* the order os.walk lists them
DirA == <<"a", "d">>
DirAC == <<"a", "d", "c">>
DirACK == <<"a", "d", "c", "k">>
DirB == <<"b", "d">>
DirMissing == <<"m">>

Dirs == {DirA, DirAC, DirACK, DirB}

SubDirs(dir) ==
    IF dir = DirA THEN <<DirAC>>
    ELSE IF dir = DirAC THEN <<DirACK>>
    ELSE <<>>

FileNames(dir) ==
    IF dir = DirA THEN <<"f">>
    ELSE IF dir = DirAC THEN <<"g">>
    ELSE IF dir = DirACK THEN <<"h">>
    ELSE IF dir = DirB THEN <<"f">>
    ELSE <<>>

\* the files of the trees, each named by its path
Files == {dir \o <<FileNames(dir)[i]>> : dir \in Dirs, i \in {1}}

\* os.walk(top): the directories below top, top first, each before its
\* sub-directories (topdown=True); the walk lists every directory, whatever
\* the loop body does with it
RECURSIVE Walk(_)
RECURSIVE WalkAll(_)
Walk(top) == <<top>> \o WalkAll(SubDirs(top))
WalkAll(dirs) ==
    IF dirs = <<>> THEN <<>> ELSE Walk(Head(dirs)) \o WalkAll(Tail(dirs))

\* --------------------------------------------------------- configurations
NameH == <<"h">>
NameHD == <<"h", "_", "d">>
NameUnknown == <<"z">>
Names == {NameH, NameHD, NameUnknown}

PatC == <<"c">>             \* matches the directory /a/d/c and all below it
PatF == <<"/", "f">>        \* matches the files named f, and no directory
ExcludeChoices == {{}, {PatC}, {PatF}}

\* BackupConfig; every set shares one destination directory.
\* exclude_patterns = {} stands for None and for the empty list alike.
BackupConfig(name, sources, compression, incremental, exclude, max) ==
    [name |-> name, source_dirs |-> sources, compression |-> compression,
     incremental |-> incremental, exclude_patterns |-> exclude,
     max_backups |-> max]

ConfigsH ==
    {BackupConfig(NameH, <<DirA, DirMissing, DirB>>, c, i, e, m) :
        c \in BOOLEAN, i \in BOOLEAN, e \in ExcludeChoices, m \in 0..MaxCap}

ConfigHD == BackupConfig(NameHD, <<DirB>>, TRUE, TRUE, {}, 1)

\* ------------------------------------------------------------------- maps
\* Python dicts are functions built on their key sets
EmptyMap == [x \in {} |-> None]
Put(m, k, v) == [x \in DOMAIN m \cup {k} |-> IF x = k THEN v ELSE m[x]]
Drop(m, ks) == [x \in DOMAIN m \ ks |-> m[x]]
\* dict.get(k)
Get(m, k) == IF k \in DOMAIN m THEN m[k] ELSE None

\* ------------------------------------------------------------------ state
VARIABLES
    now,            \* the clock, in seconds
    fs,             \* the source files: status, content, mtime
    dest,           \* the entries directly under the destination directory
    configs,        \* self.configs
    backup_index,   \* self.backup_index
    index_file,     \* backup_index.json on disk
    pc,             \* where create_backup stands
    run,            \* the locals of the create_backup call under way
    ret,            \* what the last create_backup call returned
    last,           \* what the last create_backup call did (history)
    prev,           \* what the completed call before it did (history)
    hist            \* counters and records over the whole behaviour (history)

vars == <<now, fs, dest, configs, backup_index, index_file, pc, run, ret,
          last, prev, hist>>

\* ------------------------------------------------------------ file records
\* hashlib.md5 of a content: one digest per content, never the empty string
Md5(content) == content + 1

\* st_size of a content: contents 2k and 2k+1 have the same length
Size(content) == 10 + (content \div 2)

FileInfo(size, mtime, hash) ==
    [k \in {"size", "mtime", "hash"} |->
        IF k = "size" THEN size ELSE IF k = "mtime" THEN mtime ELSE hash]

\* calculate_file_hash: "" when the file cannot be opened
calculate_file_hash(f) ==
    IF fs[f].status = "ok" THEN Md5(fs[f].content) ELSE EmptyHash

\* get_file_info: {} when stat fails
get_file_info(f) ==
    IF fs[f].status = "gone" THEN EmptyMap
    ELSE FileInfo(Size(fs[f].content), fs[f].mtime, calculate_file_hash(f))

\* mutant of should_exclude: the patterns are looked for in the last
\* component of the path only
should_exclude_NameOnly(path, exclude_patterns) ==
    IF exclude_patterns = {} THEN FALSE
    ELSE \E pattern \in exclude_patterns :
            Contains(<<"/", PathName(path)>>, pattern)

\* should_exclude
should_exclude(path, exclude_patterns) ==
    IF exclude_patterns = {} THEN FALSE
    ELSE \E pattern \in exclude_patterns : Contains(PathStr(path), pattern)

\* mutant of should_backup_file: the stored fingerprint is read under a key
\* the records do not have
should_backup_file_WrongKey(f, config_name) ==
    LET file_key == PathStr(f)
        config_index == IF config_name \in DOMAIN backup_index
                        THEN backup_index[config_name] ELSE EmptyMap
    IN IF file_key \notin DOMAIN config_index THEN TRUE
       ELSE LET current_info == get_file_info(f)
                stored_info == config_index[file_key]
            IN \/ Get(current_info, "hash") # Get(stored_info, "md5")
               \/ Get(current_info, "mtime") # Get(stored_info, "mtime")

\* mutant of should_backup_file: both the fingerprint and the modification
\* time must differ
should_backup_file_And(f, config_name) ==
    LET file_key == PathStr(f)
        config_index == IF config_name \in DOMAIN backup_index
                        THEN backup_index[config_name] ELSE EmptyMap
    IN IF file_key \notin DOMAIN config_index THEN TRUE
       ELSE LET current_info == get_file_info(f)
                stored_info == config_index[file_key]
            IN /\ Get(current_info, "hash") # Get(stored_info, "hash")
               /\ Get(current_info, "mtime") # Get(stored_info, "mtime")

\* should_backup_file
should_backup_file(f, config_name) ==
    LET file_key == PathStr(f)
        config_index == IF config_name \in DOMAIN backup_index
                        THEN backup_index[config_name] ELSE EmptyMap
    IN IF file_key \notin DOMAIN config_index THEN TRUE
       ELSE LET current_info == get_file_info(f)
                stored_info == config_index[file_key]
            IN \/ Get(current_info, "hash") # Get(stored_info, "hash")
               \/ Get(current_info, "mtime") # Get(stored_info, "mtime")

\* ---------------------------------------------------------- the index file
\* json.dump then json.load gives back the dict it was given: the keys are
\* strings and the values numbers and strings.  A file that was opened for
\* writing and not written to its end holds no JSON document.
IndexFileAbsent == [exists |-> FALSE, complete |-> FALSE, data |-> EmptyMap]
IndexFileTruncated == [exists |-> TRUE, complete |-> FALSE, data |-> EmptyMap]
IndexFileWritten(index) == [exists |-> TRUE, complete |-> TRUE, data |-> index]

\* load_backup_index
load_backup_index(file) ==
    IF ~file.exists THEN EmptyMap
    ELSE IF file.complete THEN file.data
    ELSE EmptyMap

\* ------------------------------------------------------------ history
\* what a create_backup call did: the snapshot it made (merged: the directory
\* was there already; stampSeen: an earlier run of the set had the timestamp;
\* overwrote: the archive was there already), the directories it visited, the
\* files it left out, skipped as unchanged, tried to copy, copied (placed: from
\* which source directory to which path of the snapshot) and failed to copy,
\* the index keys it wrote, what pruning listed, deleted and failed to delete,
\* the order of its phases, the index before and after, what it logged as
\* its file count and what it returned
NoRun ==
    [name |-> <<>>, snap |-> <<>>, timestamp |-> <<>>, known |-> FALSE,
     merged |-> FALSE, stampSeen |-> FALSE, overwrote |-> FALSE,
     visited |-> {}, excluded |-> {}, skipped |-> {},
     attempted |-> {}, copied |-> {}, placed |-> {}, failed |-> {},
     wrote |-> {}, tar |-> "none", listed |-> EmptyMap, deleted |-> {},
     undeleted |-> {}, phases |-> <<>>, indexBefore |-> EmptyMap,
     indexAfter |-> EmptyMap, reported |-> 0, quiet |-> FALSE,
     killedAt |-> "none", ret |-> "none"]

NoLocals ==
    [config_name |-> <<>>, timestamp |-> <<>>, dest_path |-> <<>>,
     files_backed_up |-> 0, total_size |-> 0, plan |-> <<>>,
     source_path |-> <<>>, root_path |-> <<>>, files |-> <<>>,
     filepath |-> <<>>]

Init ==
    /\ now = 0
    /\ fs = [f \in Files |-> [status |-> "ok", content |-> 0, mtime |-> 0]]
    /\ dest = EmptyMap
    /\ \E c \in ConfigsH :
         configs = [n \in {NameH, NameHD} |-> IF n = NameH THEN c ELSE ConfigHD]
    /\ index_file = IndexFileAbsent
    /\ backup_index = load_backup_index(IndexFileAbsent)
    /\ pc = "idle"
    /\ run = NoLocals
    /\ ret = "none"
    /\ last = NoRun
    /\ prev = NoRun
    /\ hist = [runs |-> 0, events |-> 0, quiet |-> TRUE, killed |-> FALSE,
               stamps |-> {}, everCopied |-> {}]

\* ------------------------------------------------------- the environment
\* Between two runs the clock advances, files are edited, touched, made
\* unreadable or removed, and snapshots are touched.  During a run the file
\* the run is about to look at, or has just copied, may become unreadable or
\* vanish (the races of a scan over a live tree); a run takes less than one
\* second.  Nothing changes once the last run of the behaviour is over.
Idle == pc = "idle" /\ hist.runs < MaxRuns

InHand(f) ==
    \/ Idle
    \/ pc = "record" /\ f = run.filepath
    \/ pc = "walk" /\ run.files # <<>> /\ f = run.root_path \o <<Head(run.files)>>

EnvStep == hist' = [hist EXCEPT !.events = @ + 1, !.quiet = FALSE]
EnvStepDest == hist' = [hist EXCEPT !.events = @ + 1]

Tick ==
    /\ Idle
    /\ now < MaxClock
    /\ now' = now + 1
    /\ UNCHANGED <<fs, dest, configs, backup_index, index_file, pc, run, ret,
                   last, prev, hist>>

EditFile(f) ==
    /\ Idle
    /\ hist.events < MaxEvents
    /\ fs[f].status = "ok"
    /\ \E m \in {fs[f].mtime, now} :
         fs' = [fs EXCEPT ![f].content = @ + 1, ![f].mtime = m]
    /\ EnvStep
    /\ UNCHANGED <<now, dest, configs, backup_index, index_file, pc, run, ret,
                   last, prev>>

TouchFile(f) ==
    /\ Idle
    /\ hist.events < MaxEvents
    /\ fs[f].status # "gone"
    /\ \E m \in (0..MaxClock) \ {fs[f].mtime} : fs' = [fs EXCEPT ![f].mtime = m]
    /\ EnvStep
    /\ UNCHANGED <<now, dest, configs, backup_index, index_file, pc, run, ret,
                   last, prev>>

Chmod(f) ==
    /\ InHand(f)
    /\ hist.events < MaxEvents
    /\ fs[f].status # "gone"
    /\ fs' = [fs EXCEPT ![f].status = IF @ = "ok" THEN "unreadable" ELSE "ok"]
    /\ EnvStep
    /\ UNCHANGED <<now, dest, configs, backup_index, index_file, pc, run, ret,
                   last, prev>>

RemoveFile(f) ==
    /\ InHand(f)
    /\ hist.events < MaxEvents
    /\ fs[f].status # "gone"
    /\ fs' = [fs EXCEPT ![f].status = "gone"]
    /\ EnvStep
    /\ UNCHANGED <<now, dest, configs, backup_index, index_file, pc, run, ret,
                   last, prev>>

TouchSnapshot(e) ==
    /\ Idle
    /\ hist.events < MaxEvents
    /\ e \in DOMAIN dest
    /\ \E m \in (0..MaxClock) \ {dest[e].mtime} :
         dest' = [dest EXCEPT ![e].mtime = m]
    /\ EnvStepDest
    /\ UNCHANGED <<now, fs, configs, backup_index, index_file, pc, run, ret,
                   last, prev>>

\* ------------------------------------------------------------ create_backup
Range(seq) == {seq[i] : i \in 1..Len(seq)}

\* line 162: the name of the snapshot directory under the destination
DestPath(config_name, timestamp) == config_name \o <<"_">> \o timestamp

\* lines 174-183: the directories the run visits, source by source; a source
\* directory that does not exist is skipped with a warning
RECURSIVE Plan(_)
Plan(source_dirs) ==
    IF source_dirs = <<>> THEN <<>>
    ELSE LET source_path == Head(source_dirs)
             roots == IF source_path \in Dirs THEN Walk(source_path) ELSE <<>>
         IN [i \in 1..Len(roots) |->
                [source_path |-> source_path, root_path |-> roots[i]]]
            \o Plan(Tail(source_dirs))

\* the files os.walk lists in a directory when it reaches it
RECURSIVE Listing(_, _)
Listing(root_path, names) ==
    IF names = <<>> THEN <<>>
    ELSE (IF fs[root_path \o <<Head(names)>>].status = "gone" THEN <<>>
          ELSE <<Head(names)>>) \o Listing(root_path, Tail(names))

\* mutant of NeedsCopy: the index is consulted in full mode too
NeedsCopy_IgnoresMode(config, filepath) ==
    should_backup_file(filepath, config.name)

\* lines 196-198: whether the file goes on to be copied
NeedsCopy(config, filepath) ==
    ~(config.incremental /\ ~should_backup_file(filepath, config.name))

\* lines 201-202: where the file goes, below the snapshot directory
DestFilePath(source_path, filepath) ==
    <<PathName(source_path)>> \o RelativeTo(filepath, source_path)

\* line 207: the count of files copied
Counted(files_backed_up) == files_backed_up + 1

\* mutant of UpdatedIndex: the record is written under every set of the index
UpdatedIndex_AllSets(index, config_name, file_key, info) ==
    [n \in DOMAIN index |-> Put(index[n], file_key, info)]

\* line 211: the index with the record of the file just copied
UpdatedIndex(index, config_name, file_key, info) ==
    [index EXCEPT ![config_name] = Put(@, file_key, info)]

\* mutant of OnCopyError: the error ends the loops over the files and the
\* directories
OnCopyError_Abort(locals) == [locals EXCEPT !.files = <<>>, !.plan = <<>>]

\* lines 213-214: a copy that fails is logged and the loop goes on
OnCopyError(locals) == locals

\* mutant of CreateBackupUnknown: the snapshot directory is made before the
\* name is looked up
CreateBackupUnknown_MakesDirectory(config_name) ==
    /\ pc = "idle"
    /\ config_name \notin DOMAIN configs
    /\ ret' = "False"
    /\ dest' = Put(dest, DestPath(config_name, Strftime(now)),
                   [kind |-> "dir", mtime |-> now, tree |-> EmptyMap,
                    tops |-> {}, by |-> config_name])
    /\ UNCHANGED <<now, fs, configs, backup_index, index_file, pc, run,
                   last, prev, hist>>

\* lines 152-156: an unknown name
CreateBackupUnknown(config_name) ==
    /\ pc = "idle"
    /\ config_name \notin DOMAIN configs
    /\ ret' = "False"
    /\ UNCHANGED <<now, fs, dest, configs, backup_index, index_file, pc, run,
                   last, prev, hist>>

\* lines 158-172: the snapshot directory is made (exist_ok) and the index of
\* the set prepared
CreateBackupStart(config_name) ==
    /\ pc = "idle"
    /\ hist.runs < MaxRuns
    /\ config_name \in DOMAIN configs
    /\ LET config == configs[config_name]
           timestamp == Strftime(now)
           dest_path == DestPath(config_name, timestamp)
       IN /\ dest' = IF dest_path \in DOMAIN dest THEN dest
                     ELSE Put(dest, dest_path,
                              [kind |-> "dir", mtime |-> now, tree |-> EmptyMap,
                               tops |-> {}, by |-> config_name])
          /\ backup_index' = IF config_name \in DOMAIN backup_index
                             THEN backup_index
                             ELSE Put(backup_index, config_name, EmptyMap)
          /\ run' = [NoLocals EXCEPT !.config_name = config_name,
                                     !.timestamp = timestamp,
                                     !.dest_path = dest_path,
                                     !.plan = Plan(config.source_dirs)]
          /\ prev' = last
          /\ last' = [NoRun EXCEPT !.name = config_name, !.snap = dest_path,
                                   !.timestamp = timestamp, !.known = TRUE,
                                   !.merged = dest_path \in DOMAIN dest,
                                   !.stampSeen =
                                       <<config_name, timestamp>> \in hist.stamps,
                                   !.indexBefore = backup_index]
          /\ hist' = [hist EXCEPT !.runs = @ + 1,
                                  !.stamps = @ \cup {<<config_name, timestamp>>}]
    /\ pc' = "walk"
    /\ ret' = "none"
    /\ UNCHANGED <<now, fs, configs, index_file>>

\* lines 183-188: the next directory of the walk
VisitDir ==
    /\ pc = "walk"
    /\ run.files = <<>>
    /\ run.plan # <<>>
    /\ LET item == Head(run.plan)
           config == configs[run.config_name]
           excluded == should_exclude(item.root_path, config.exclude_patterns)
       IN /\ run' = [run EXCEPT !.plan = Tail(@),
                       !.source_path = item.source_path,
                       !.root_path = item.root_path,
                       !.files = IF excluded THEN <<>>
                                 ELSE Listing(item.root_path,
                                              FileNames(item.root_path))]
          /\ last' = [last EXCEPT !.visited = @ \cup {item.root_path},
                        !.excluded = IF excluded THEN @ \cup {item.root_path}
                                     ELSE @]
    /\ UNCHANGED <<now, fs, dest, configs, backup_index, index_file, pc, ret,
                   prev, hist>>

\* lines 190-207 and 213-214: one file of the directory
CopyFile ==
    /\ pc = "walk"
    /\ run.files # <<>>
    /\ LET config == configs[run.config_name]
           filepath == run.root_path \o <<Head(run.files)>>
           rest == [run EXCEPT !.files = Tail(@)]
       IN IF should_exclude(filepath, config.exclude_patterns)
          THEN /\ run' = rest
               /\ last' = [last EXCEPT !.excluded = @ \cup {filepath}]
               /\ UNCHANGED <<dest, pc, hist>>
          ELSE IF ~NeedsCopy(config, filepath)
          THEN /\ run' = rest
               /\ last' = [last EXCEPT !.skipped = @ \cup {filepath}]
               /\ UNCHANGED <<dest, pc, hist>>
          ELSE LET dest_file_path == DestFilePath(run.source_path, filepath)
                   snap == dest[run.dest_path]
                   top == Head(dest_file_path)
                   made == [snap EXCEPT
                              !.tops = @ \cup {top},
                              !.mtime = IF top \in snap.tops THEN @ ELSE now]
                   phases == IF last.phases # <<>>
                                /\ last.phases[Len(last.phases)] = "copy"
                             THEN last.phases
                             ELSE Append(last.phases, "copy")
               IN \E ok \in BOOLEAN :
                    /\ ok => fs[filepath].status = "ok"
                    /\ (~ok /\ fs[filepath].status = "ok")
                          => hist.events < MaxEvents
                    /\ hist' = IF ok
                               THEN [hist EXCEPT !.everCopied = @ \cup
                                       {<<run.config_name, PathStr(filepath)>>}]
                               ELSE IF fs[filepath].status = "ok"
                               THEN [hist EXCEPT !.events = @ + 1]
                               ELSE hist
                    /\ IF ok
                       THEN /\ dest' = [dest EXCEPT ![run.dest_path] =
                                 [made EXCEPT !.tree =
                                    Put(@, dest_file_path,
                                        [src |-> filepath,
                                         content |-> fs[filepath].content])]]
                            /\ run' = [rest EXCEPT
                                 !.files_backed_up = Counted(@),
                                 !.filepath = filepath]
                            /\ last' = [last EXCEPT
                                 !.attempted = @ \cup {filepath},
                                 !.copied = @ \cup {filepath},
                                 !.placed = @ \cup
                                    {[source |-> run.source_path,
                                      file |-> filepath,
                                      to |-> dest_file_path]},
                                 !.phases = phases]
                            /\ pc' = "record"
                       ELSE /\ dest' = [dest EXCEPT ![run.dest_path] = made]
                            /\ run' = OnCopyError(rest)
                            /\ last' = [last EXCEPT
                                 !.attempted = @ \cup {filepath},
                                 !.failed = @ \cup {filepath},
                                 !.phases = phases]
                            /\ pc' = pc
    /\ UNCHANGED <<now, fs, configs, backup_index, index_file, ret, prev>>

\* lines 208-214: the size and the record of the file just copied; when the
\* file has vanished since the copy, stat raises at line 208 and nothing is
\* recorded, or it has vanished after line 208 and the record is empty
RecordFile ==
    /\ pc = "record"
    /\ \E raised \in BOOLEAN :
         LET file_key == PathStr(run.filepath)
         IN /\ raised => fs[run.filepath].status = "gone"
            /\ IF raised
               THEN /\ run' = [run EXCEPT !.filepath = <<>>]
                    /\ UNCHANGED <<backup_index, last>>
               ELSE /\ backup_index' =
                          UpdatedIndex(backup_index, run.config_name, file_key,
                                       get_file_info(run.filepath))
                    /\ last' = [last EXCEPT !.wrote = @ \cup {file_key}]
                    /\ run' = [run EXCEPT
                          !.filepath = <<>>,
                          !.total_size = @ + Size(fs[run.filepath].content)]
    /\ pc' = "walk"
    /\ UNCHANGED <<now, fs, dest, configs, index_file, ret, prev, hist>>

\* the walk is over: every source directory has been gone through
WalkDone == pc = "walk" /\ run.files = <<>> /\ run.plan = <<>>

\* line 241: the archive beside the snapshot directory
ArchivePath(backup_path) == WithSuffix(backup_path, TarGz)

\* mutant of AfterCompress: the directory is removed whether or not tar
\* produced the archive
AfterCompress_LosesDirectory(entries, backup_path, archive_path, ok, t) ==
    IF ok
    THEN Put(Drop(entries, {backup_path}), archive_path,
             [entries[backup_path] EXCEPT !.kind = "file", !.mtime = t])
    ELSE Drop(entries, {backup_path})

\* lines 240-251: the destination after compress_backup; tar writes the
\* archive beside the directory and rmtree removes the directory, or tar
\* fails, the error is logged and line 248 is not reached
AfterCompress(entries, backup_path, archive_path, ok, t) ==
    IF ok
    THEN Put(Drop(entries, {backup_path}), archive_path,
             [entries[backup_path] EXCEPT !.kind = "file", !.mtime = t])
    ELSE entries

\* lines 216-218 and compress_backup: tar, then rmtree of the directory; a
\* failure of tar is logged and leaves the directory
CompressBackup ==
    /\ WalkDone
    /\ configs[run.config_name].compression
    /\ \E ok \in BOOLEAN :
         LET backup_path == run.dest_path
             archive_path == ArchivePath(backup_path)
         IN /\ ~ok => hist.events < MaxEvents
            /\ hist' = IF ok THEN hist ELSE [hist EXCEPT !.events = @ + 1]
            /\ dest' = AfterCompress(dest, backup_path, archive_path, ok, now)
            /\ last' = [last EXCEPT
                          !.tar = IF ok THEN "ok" ELSE "failed",
                          !.overwrote = ok /\ archive_path \in DOMAIN dest,
                          !.snap = IF ok THEN archive_path ELSE @,
                          !.phases = Append(@, "archive")]
    /\ pc' = "cleanup"
    /\ UNCHANGED <<now, fs, configs, backup_index, index_file, run, ret, prev>>

\* line 262: the entries cleanup_old_backups takes for snapshots of the set
IsBackupOf(item_name, config_name) == StartsWith(item_name, config_name \o <<"_">>)

\* the orders in which iterdir may list a set of entries
Orders(items) ==
    {o \in [1..Cardinality(items) -> items] :
        \A i, j \in 1..Cardinality(items) : i # j => o[i] # o[j]}

\* line 266: list.sort(key=st_mtime, reverse=True), a stable sort: an entry
\* goes behind every entry already placed that is as recent or more recent
RECURSIVE InsertBackup(_, _, _)
InsertBackup(sorted, item, mtime) ==
    IF sorted = <<>> THEN <<item>>
    ELSE IF mtime[Head(sorted)] >= mtime[item]
         THEN <<Head(sorted)>> \o InsertBackup(Tail(sorted), item, mtime)
         ELSE <<item>> \o sorted

RECURSIVE SortBackups(_, _)
SortBackups(backups, mtime) ==
    IF backups = <<>> THEN <<>>
    ELSE InsertBackup(SortBackups(SubSeq(backups, 1, Len(backups) - 1), mtime),
                      backups[Len(backups)], mtime)

\* mutant of Excess: one entry more than max_backups is kept
Excess_KeepsOneMore(backups, max_backups) ==
    IF Len(backups) > max_backups + 1
    THEN SubSeq(backups, max_backups + 2, Len(backups))
    ELSE <<>>

\* lines 269-270: backups[max_backups:] when there are more than max_backups
Excess(backups, max_backups) ==
    IF Len(backups) > max_backups
    THEN SubSeq(backups, max_backups + 1, Len(backups))
    ELSE <<>>

\* mutant of Removed: the first deletion that fails ends the loop
Removed_StopsAtFailure(excess, failing) ==
    {excess[i] : i \in {k \in 1..Len(excess) :
                          \A j \in 1..k : excess[j] \notin failing}}

\* lines 270-278: the entries the loop removes; a deletion that fails is
\* logged inside the loop, which goes on with the next entry
Removed(excess, failing) == Range(excess) \ failing

\* lines 220-221 and cleanup_old_backups: a deletion that fails is logged
\* and the entry stays
CleanupOldBackups ==
    /\ \/ pc = "cleanup"
       \/ WalkDone /\ ~configs[run.config_name].compression
    /\ LET config == configs[run.config_name]
           mtime == [n \in DOMAIN dest |-> dest[n].mtime]
           items == {n \in DOMAIN dest : IsBackupOf(n, config.name)}
       IN \E order \in Orders(items) :
            LET backups == SortBackups(order, mtime)
                excess == Excess(backups, config.max_backups)
            IN \E failing \in SUBSET Range(excess) :
                 /\ hist.events + Cardinality(failing) <= MaxEvents
                 /\ hist' = [hist EXCEPT !.events = @ + Cardinality(failing)]
                 /\ dest' = Drop(dest, Removed(excess, failing))
                 /\ last' = [last EXCEPT
                               !.listed = mtime,
                               !.deleted = Removed(excess, failing),
                               !.undeleted = failing,
                               !.phases = Append(@, "prune")]
    /\ pc' = "save"
    /\ UNCHANGED <<now, fs, configs, backup_index, index_file, run, ret, prev>>

\* mutant of SaveOpen: the index is saved right after archival, before the
\* old snapshots are cleaned up
SaveOpen_BeforeCleanup ==
    /\ pc \in {"cleanup", "save"}
    /\ index_file' = IndexFileTruncated
    /\ last' = [last EXCEPT !.phases = Append(@, "persist")]
    /\ pc' = "saving"
    /\ UNCHANGED <<now, fs, dest, configs, backup_index, run, ret, prev, hist>>

\* lines 223-224 and save_backup_index: open(path, 'w') empties the file
SaveOpen ==
    /\ pc = "save"
    /\ index_file' = IndexFileTruncated
    /\ last' = [last EXCEPT !.phases = Append(@, "persist")]
    /\ pc' = "saving"
    /\ UNCHANGED <<now, fs, dest, configs, backup_index, run, ret, prev, hist>>

\* json.dump writes the index and the file is closed; lines 226-227
SaveDump ==
    /\ pc = "saving"
    /\ index_file' = IndexFileWritten(backup_index)
    /\ ret' = "True"
    /\ last' = [last EXCEPT !.ret = "True", !.quiet = hist.quiet,
                             !.indexAfter = backup_index,
                             !.reported = run.files_backed_up]
    /\ hist' = [hist EXCEPT !.quiet = TRUE]
    /\ run' = NoLocals
    /\ pc' = "idle"
    /\ UNCHANGED <<now, fs, dest, configs, backup_index, prev>>

\* the process is killed during a run; the next one starts from the index
\* file (lines 54-55)
Crash ==
    /\ pc # "idle"
    /\ hist.events < MaxEvents
    /\ backup_index' = load_backup_index(index_file)
    /\ ret' = "killed"
    /\ hist' = [hist EXCEPT !.quiet = TRUE, !.events = @ + 1,
                            !.killed = TRUE]
    /\ run' = NoLocals
    /\ pc' = "idle"
    /\ last' = [last EXCEPT !.ret = "killed", !.killedAt = pc,
                             !.indexAfter = backup_index]
    /\ UNCHANGED <<now, fs, dest, configs, index_file, prev>>

\* ---------------------------------------------------------- specifications
Environment ==
    \/ Tick
    \/ \E f \in Files : EditFile(f)
    \/ \E f \in Files : TouchFile(f)
    \/ \E f \in Files : Chmod(f)
    \/ \E f \in Files : RemoveFile(f)
    \/ \E e \in DOMAIN dest : TouchSnapshot(e)

Program ==
    \/ \E n \in Names : CreateBackupUnknown(n)
    \/ \E n \in Names : CreateBackupStart(n)
    \/ VisitDir
    \/ CopyFile
    \/ RecordFile
    \/ CompressBackup
    \/ CleanupOldBackups
    \/ SaveOpen
    \/ SaveDump

Next == Program \/ Environment \/ Crash

Spec == Init /\ [][Next]_vars

\* ------------------------------------------------------------------ claims
Key(f) == PathStr(f)

\* f lies below the directory dir
Under(f, dir) == Len(dir) < Len(f) /\ SubSeq(f, 1, Len(dir)) = dir

\* the path holds one of the patterns as a literal substring
Matches(path, patterns) == \E p \in patterns : Contains(PathStr(path), p)

\* the files below the source directories of a set that exist
SourceFiles(config) ==
    {f \in Files : \E i \in 1..Len(config.source_dirs) :
        config.source_dirs[i] \in Dirs /\ Under(f, config.source_dirs[i])}

Returned(r) == r.known /\ r.ret \notin {"none", "killed"}

Min(a, b) == IF a <= b THEN a ELSE b

\* C1: when a set in incremental mode is run twice in immediate succession,
\* every copy of the first run succeeded and no source file changed from the
\* end of the first run to the end of the second, the second run copies no
\* file, both runs return True and the index after the second run is the
\* index after the first.
C1_IdempotentRerun ==
    (/\ Returned(last) /\ Returned(prev)
     /\ last.name = prev.name
     /\ configs[last.name].incremental
     /\ last.quiet
     /\ prev.failed = {})
    => /\ last.copied = {}
       /\ last.reported = 0
       /\ last.ret = "True" /\ prev.ret = "True"
       /\ last.indexAfter = prev.indexAfter

\* a second run right after a first one that copied files, nothing changed
C1_Witness ==
    /\ Returned(last) /\ Returned(prev)
    /\ last.name = prev.name
    /\ configs[last.name].incremental
    /\ last.quiet
    /\ prev.failed = {}
    /\ prev.copied # {}
    /\ last.skipped # {}

\* the step of create_backup that decides on the file in hand
DecidesFile ==
    /\ pc = "walk" /\ run.files # <<>>
    /\ pc' \in {"walk", "record"}
    /\ run'.files = Tail(run.files)

\* C2: in an incremental run, a file that is not excluded and has a record in
\* the index of the set is put to the copy if and only if its fingerprint or
\* its modification time differs from the record (size does not decide).
C2_ChangeDetection ==
    [][DecidesFile =>
        LET config == configs[run.config_name]
            f == run.root_path \o <<Head(run.files)>>
            index == backup_index[run.config_name]
        IN (/\ config.incremental
            /\ ~Matches(f, config.exclude_patterns)
            /\ Key(f) \in DOMAIN index)
           => ((f \in last'.attempted) <=>
                 \/ Get(get_file_info(f), "hash") # Get(index[Key(f)], "hash")
                 \/ Get(get_file_info(f), "mtime") # Get(index[Key(f)], "mtime"))
      ]_vars

\* a run that re-copied exactly one tracked file, whose modification time
\* alone had changed, and skipped another tracked file
C2_Witness ==
    /\ Returned(last)
    /\ configs[last.name].incremental
    /\ last.skipped # {}
    /\ \E f \in Files :
         /\ last.attempted = {f}
         /\ last.name \in DOMAIN last.indexBefore
         /\ Key(f) \in DOMAIN last.indexBefore[last.name]
         /\ LET stored == last.indexBefore[last.name][Key(f)]
            IN /\ Get(stored, "hash") = Md5(fs[f].content)
               /\ Get(stored, "mtime") # fs[f].mtime

\* the entries under the destination whose name starts with '{name}_'
SnapshotsOf(name) == {n \in DOMAIN dest : StartsWith(n, name \o <<"_">>)}

Pruned(r) == r.known /\ "prune" \in Range(r.phases)

\* C3: once a run has pruned with no deletion failing, the entries whose name
\* starts with '{name}_' number min(max_backups, number before pruning), and
\* no entry deleted was modified more recently than an entry kept.
C3_RetentionCap ==
    (Pruned(last) /\ last.undeleted = {})
    => LET before == {n \in DOMAIN last.listed :
                         StartsWith(n, last.name \o <<"_">>)}
           kept == SnapshotsOf(last.name)
       IN /\ kept \subseteq before
          /\ Cardinality(kept) =
                Min(configs[last.name].max_backups, Cardinality(before))
          /\ \A k \in kept, d \in before \ kept :
                last.listed[k] >= last.listed[d]

\* pruning deleted something and kept something, and the deleted entry is
\* not the oldest by name
C3_Witness ==
    /\ Pruned(last) /\ last.undeleted = {}
    /\ last.deleted # {}
    /\ SnapshotsOf(last.name) # {}
    /\ \E d \in last.deleted : \E k \in SnapshotsOf(last.name) :
         last.listed[k] > last.listed[d]

\* C4: a run of a set with incremental mode off puts every file below its
\* existing source directories that is not excluded to the copy, whatever the
\* index holds for it.
C4_FullMode ==
    (Returned(last) /\ ~configs[last.name].incremental)
    => \A f \in SourceFiles(configs[last.name]) :
          (fs[f].status # "gone"
           /\ ~Matches(f, configs[last.name].exclude_patterns))
          => f \in last.attempted

\* a full run copied a file for which the index held the very record the
\* file has now
C4_Witness ==
    /\ Returned(last) /\ ~configs[last.name].incremental
    /\ \E f \in last.copied :
         /\ last.name \in DOMAIN last.indexBefore
         /\ Key(f) \in DOMAIN last.indexBefore[last.name]
         /\ last.indexBefore[last.name][Key(f)] = get_file_info(f)
         /\ fs[f].status = "ok"

\* the files below a directory whose path holds an exclude pattern
ExcludedSubtree(config) ==
    {f \in Files : \E d \in Dirs :
        Under(f, d) /\ Matches(d, config.exclude_patterns)}

\* C5: no file below a directory whose path holds an exclude pattern of the
\* set is copied into a snapshot of the set, at any depth, and no index entry
\* is written for it.
C5_Exclusion ==
    \A name \in DOMAIN configs :
       \A f \in ExcludedSubtree(configs[name]) :
          /\ \A e \in DOMAIN dest :
                dest[e].by = name =>
                   \A q \in DOMAIN dest[e].tree : dest[e].tree[q].src # f
          /\ (last.name = name => f \notin last.copied /\ Key(f) \notin last.wrote)
          /\ (name \in DOMAIN backup_index
                => Key(f) \notin DOMAIN backup_index[name])

\* a run that returned went past an excluded directory with files at two
\* depths below it and copied a file outside it
C5_Witness ==
    /\ Returned(last)
    /\ last.copied # {}
    /\ DirAC \in last.excluded
    /\ DirACK \in last.excluded
    /\ Cardinality(ExcludedSubtree(configs[last.name])) >= 2
    /\ \A f \in ExcludedSubtree(configs[last.name]) : fs[f].status = "ok"

\* C6: when copies fail in a run, the run goes on: every file below the
\* source directories that is there and not excluded is still copied, put to
\* the copy or skipped as unchanged, the run returns True, and the count of
\* files it reports is the number of files whose copy succeeded.
C6_PartialFailure ==
    (Returned(last) /\ last.failed # {})
    => /\ last.ret = "True"
       /\ last.copied = last.attempted \ last.failed
       /\ last.reported = Cardinality(last.copied)
       /\ \A f \in SourceFiles(configs[last.name]) :
             (fs[f].status # "gone"
              /\ ~Matches(f, configs[last.name].exclude_patterns))
             => f \in last.attempted \cup last.skipped

\* one copy among four failed and the run copied the three others
C6_Witness ==
    /\ Returned(last)
    /\ Cardinality(last.failed) = 1
    /\ Cardinality(last.copied) = 3
    /\ last.reported = 3
    /\ \E f \in last.failed :
          \E i \in 1..Len(configs[last.name].source_dirs) :
             /\ configs[last.name].source_dirs[i] = DirA
             /\ Under(f, DirA)

\* the process was killed in this step
Killed == pc # "idle" /\ pc' = "idle" /\ last'.ret = "killed"

\* C7: but for a kill, a step changes or adds an index entry only when it
\* records the file the run has just copied, under the set of the run, and
\* removes none; and every entry of the index is for a path whose copy
\* succeeded at least once.
C7_IndexMutation ==
    /\ [](\A n \in DOMAIN backup_index : \A k \in DOMAIN backup_index[n] :
            <<n, k>> \in hist.everCopied)
    /\ [][~Killed =>
            /\ \A n \in DOMAIN backup_index : \A k \in DOMAIN backup_index[n] :
                  n \in DOMAIN backup_index' /\ k \in DOMAIN backup_index'[n]
            /\ \A n \in DOMAIN backup_index' : \A k \in DOMAIN backup_index'[n] :
                  (\/ n \notin DOMAIN backup_index
                   \/ k \notin DOMAIN backup_index[n]
                   \/ backup_index'[n][k] # backup_index[n][k])
                  => /\ pc = "record"
                     /\ n = run.config_name
                     /\ k = Key(run.filepath)
                     /\ run.filepath \in last.copied
       ]_vars

\* a run wrote entries while a copy of it failed and another set had entries
C7_Witness ==
    /\ Returned(last)
    /\ last.wrote # {}
    /\ \E f \in last.failed : Key(f) \notin DOMAIN backup_index[last.name]
    /\ \E n \in DOMAIN backup_index :
          n # last.name /\ DOMAIN backup_index[n] # {}

\* C8: when the process is killed while save_backup_index runs, the index
\* the next process loads is the index as it was before the run or the index
\* as the run left it.
C8_AtomicIndexPersistence ==
    (ret = "killed" /\ last.killedAt = "saving")
    => backup_index \in {last.indexBefore, last.indexAfter}

\* C9: the timestamp of a run was used by no earlier run of the set, the run
\* makes its snapshot directory anew and its archive replaces none.
C9_SnapshotIdentity ==
    last.known => ~last.stampSeen /\ ~last.merged /\ ~last.overwrote

\* C10: a file copied goes to {basename of its source directory}/{its path
\* below that directory} in the snapshot, and two files copied from different
\* source directories in a run go to different paths.
C10_NoCollision ==
    \A x \in last.placed :
       /\ x.to = <<PathName(x.source)>> \o RelativeTo(x.file, x.source)
       /\ \A y \in last.placed : x.source # y.source => x.to # y.to

C12_UnknownSet ==
    /\ [](last.known => (last.name \in DOMAIN configs /\ last.ret # "False"))
    /\ [](ret = "False" => pc = "idle")
    /\ [][(ret' = "False" /\ ret # "False")
            => /\ dest' = dest
               /\ fs' = fs
               /\ backup_index' = backup_index
               /\ index_file' = index_file
               /\ last' = last
               /\ pc' = "idle"
       ]_vars

\* create_backup returned False when snapshots and a written index were there
C12_Witness ==
    /\ ret = "False"
    /\ DOMAIN dest # {}
    /\ index_file.complete
    /\ \E n \in DOMAIN backup_index : DOMAIN backup_index[n] # {}

\* the place of a phase in the order copies, archival, pruning, persistence
PhaseRank(phase) ==
    IF phase = "copy" THEN 1
    ELSE IF phase = "archive" THEN 2
    ELSE IF phase = "prune" THEN 3
    ELSE 4

\* C13: the phases of a run come in the order copies, archival, pruning,
\* persistence, each at most once; a run that returned has pruned and
\* persisted, has archived exactly when compression is on and has a copy
\* phase exactly when it put a file to the copy; the index file changes only
\* once pruning is done; and after a kill before the index file is opened
\* the next process loads the index as it was before the run.
C13_StepOrdering ==
    /\ [](\A i, j \in 1..Len(last.phases) :
            i < j => PhaseRank(last.phases[i]) < PhaseRank(last.phases[j]))
    /\ [](Returned(last)
           => /\ "prune" \in Range(last.phases)
              /\ "persist" \in Range(last.phases)
              /\ ("archive" \in Range(last.phases))
                    <=> configs[last.name].compression
              /\ ("copy" \in Range(last.phases)) <=> (last.attempted # {}))
    /\ []((last.ret = "killed"
             /\ last.killedAt \in {"walk", "record", "cleanup", "save"})
           => /\ "persist" \notin Range(last.phases)
              /\ backup_index = last.indexBefore
              /\ load_backup_index(index_file) = last.indexBefore)
    /\ [][index_file' # index_file => "prune" \in Range(last.phases)]_vars

\* a run was killed after it had copied files, written their records in
\* memory and archived the snapshot, and the next process has the index of
\* before the run
C13_Witness ==
    /\ last.ret = "killed"
    /\ last.killedAt = "cleanup"
    /\ last.tar = "ok"
    /\ last.wrote # {}
    /\ last.indexAfter # last.indexBefore
    /\ backup_index = last.indexBefore

\* C14: a run visits no directory below a directory that its path filter
\* excluded: the walk does not go down into an excluded directory.
C14_SubtreePruning ==
    \A d \in last.visited :
       \A e \in last.excluded : e \in Dirs => ~Under(d, e)

\* C15: in an incremental run, a file that is not excluded and cannot be read
\* or stat-ed when the run decides on it is put to the copy, whatever record
\* the index holds for it.
C15_UnreadableIsChanged ==
    [][DecidesFile =>
        LET config == configs[run.config_name]
            f == run.root_path \o <<Head(run.files)>>
        IN (/\ config.incremental
            /\ ~Matches(f, config.exclude_patterns)
            /\ fs[f].status # "ok")
           => f \in last'.attempted
      ]_vars

\* C16: when deletions fail during pruning, the entries the run deleted or
\* failed to delete are together the entries beyond the first max_backups in
\* modification-time order; each of them but those whose deletion failed is
\* gone, every other entry is still there, and the run returns True with the
\* index written to its file.
C16_DeletionFailure ==
    (Pruned(last) /\ last.undeleted # {})
    => LET before == {n \in DOMAIN last.listed :
                         StartsWith(n, last.name \o <<"_">>)}
           excess == last.deleted \cup last.undeleted
       IN /\ excess \subseteq before
          /\ last.deleted \cap last.undeleted = {}
          /\ Cardinality(excess) =
                Cardinality(before) - configs[last.name].max_backups
          /\ \A k \in before \ excess : \A d \in excess :
                last.listed[k] >= last.listed[d]
          /\ \A d \in last.deleted : d \notin DOMAIN dest
          /\ \A k \in DOMAIN last.listed \ last.deleted : k \in DOMAIN dest
          /\ last.ret # "killed" => pc \in {"save", "saving", "idle"}
          /\ Returned(last)
                => /\ last.ret = "True"
                   /\ index_file = IndexFileWritten(last.indexAfter)

\* in a run of a set with max_backups >= 1 one deletion failed, another
\* excess entry was deleted, and the run returned
C16_Witness ==
    /\ Pruned(last) /\ Returned(last)
    /\ configs[last.name].max_backups >= 1
    /\ last.undeleted # {}
    /\ last.deleted # {}
    /\ last.undeleted \subseteq DOMAIN dest
    /\ index_file = IndexFileWritten(last.indexAfter)

\* a snapshot of the set among the entries holds a copy of the file with the
\* content the file has now
HasCopy(entries, name, f) ==
    \E e \in DOMAIN entries :
       /\ entries[e].by = name
       /\ \E q \in DOMAIN entries[e].tree :
             /\ entries[e].tree[q].src = f
             /\ entries[e].tree[q].content = fs[f].content

\* the run under way prunes in this step
PruneStep ==
    /\ "prune" \notin Range(last.phases)
    /\ "prune" \in Range(last'.phases)

\* C17: in a run of an incremental set with max_backups >= 1 and a timestamp
\* of its own, after runs that all returned, pruning never removes the last snapshot that holds
\* the copy of a source file whose index record matches its current state:
\* a file the next run skips stays recoverable from a retained snapshot.
C17_Recoverability ==
    [][(/\ PruneStep
        /\ configs[last.name].incremental
        /\ configs[last.name].max_backups >= 1
        /\ ~last.stampSeen
        /\ ~hist.killed)
       => \A f \in Files :
             (/\ fs[f].status = "ok"
              /\ Key(f) \in DOMAIN backup_index[last.name]
              /\ backup_index[last.name][Key(f)] = get_file_info(f)
              /\ HasCopy(dest, last.name, f))
             => HasCopy(dest', last.name, f)
      ]_vars

\* the entries a run of the set with this timestamp makes: the snapshot
\* directory and its archive
MadeBy(name, timestamp) ==
    {DestPath(name, timestamp), ArchivePath(DestPath(name, timestamp))}

\* C18: after runs that all returned, the pruning of a run of a set with
\* max_backups >= 1 deletes only entries that runs of the same set made,
\* never a snapshot of another set under the same destination, also when the
\* name of the other set starts with the name of the set and "_".
C18_RetentionIsolation ==
    (/\ Pruned(last)
     /\ configs[last.name].max_backups >= 1
     /\ ~hist.killed)
    => \A e \in last.deleted :
          \E s \in hist.stamps : s[1] = last.name /\ e \in MadeBy(s[1], s[2])

\* C19: with max_backups >= 1, the snapshot made by a run with a timestamp
\* of its own, directory or archive, is not among the entries the pruning of
\* that run deleted, whatever the modification times of the snapshots of
\* the set that were there before.
C19_NewestSurvives ==
    (/\ Pruned(last)
     /\ configs[last.name].max_backups >= 1
     /\ ~last.stampSeen
     /\ \A n \in DOMAIN last.listed :
           StartsWith(n, last.name \o <<"_">>)
           => \E s \in hist.stamps :
                 s[1] = last.name /\ n \in MadeBy(s[1], s[2]))
    => last.snap \notin last.deleted

====
